---------------------------- MODULE Spec2Model ----------------------------
(***************************************************************************)
(* A model of the Build class of src/src/utils/build.ts: path resolution   *)
(* and Handlebars template rendering (compileHbsTemplate,                  *)
(* compileHbsTemplates), file concatenation (concatFilesContent), the      *)
(* Bootstrap 3 bundle (buildBootstrap3), the Sass wrapper                  *)
(* (buildCustomCssFromScss) and the minifiers (minifyJsContent,            *)
(* minifyCssContent).                                                      *)
(*                                                                         *)
(* Text is a sequence of one-character strings.  Paths follow Node's POSIX *)
(* path module (normalize, join, dirname, parse).  The external libraries  *)
(* (Handlebars, less, node-sass, uglify-js, clean-css) are abstract        *)
(* functions of their input whose failure is chosen by the environment.    *)
(***************************************************************************)
EXTENDS Integers, Sequences, FiniteSets, TLC

VARIABLES
    \* ---- path resolution on its own (lines 214-223)
    rPc, rPath, rRoot, rOnce, rTwice,
    \* ---- compileHbsTemplates / compileHbsTemplate (lines 211-258)
    tSettings,   \* this.settings: [src, dist]
    tFiles,      \* params.files: the jobs, each [source, target]
    tData,       \* the caller's shared data object
    tData0,      \* what the caller's data object held before the call
    tFs,         \* the readable files: path -> template text
    tJobs,       \* per job: the state of its compileHbsTemplate call
    tIdx,        \* the job the loop of compileHbsTemplates is at (0: not called)
    tResults,    \* results of compileHbsTemplates
    tBatch,      \* the promise compileHbsTemplates returned
    tWrites,     \* the files written, in order: <<job, path, body>>
    tDirs,       \* the directories mkdirp.sync created
    tCrashed,    \* the process ended on an uncaught exception
    \* ---- concatFilesContent and buildBootstrap3 (lines 34-125, 144-163)
    cOp,         \* the operation the caller invoked
    cFiles,      \* params.filesArr
    cDist,       \* params.distPath
    cFs,         \* the readable literal files: path -> text
    cTree,       \* node_modules/bootstrap/less: "absent", "complete", "incomplete"
    cLess,       \* the less module: "missing", "ok", "error"
    cPc,         \* where concatFilesContent is
    cI,          \* the entry its loop is at
    cPieces,     \* concatedContent
    cOutcome,    \* the promise concatFilesContent returned
    bPc,         \* where buildBootstrap3 is
    bContent,    \* its local content
    bOutcome,    \* the promise buildBootstrap3 returned
    cReads,      \* the paths read with fs.readFileSync, in order
    cWrites,     \* the files written: <<path, text>>
    cDirs,       \* the directories mkdirp.sync created
    cLessCalls,  \* the sources less.render was called with
    cLog,        \* console.log notices
    cCrashed,    \* the process ended on an uncaught exception
    \* ---- buildCustomCssFromScss (lines 127-142)
    sParams, sFs, sPc, sData, sOutcome, sReads, sRenders,
    \* ---- minifyJsContent and minifyCssContent (lines 165-197)
    mParams, mFs, mPc, mInput, mOutcome, mReads, mWrites, mDirs

resolveVars == <<rPc, rPath, rRoot, rOnce, rTwice>>

tplVars == <<tSettings, tFiles, tData, tData0, tFs, tJobs, tIdx, tResults,
             tBatch, tWrites, tDirs, tCrashed>>

catVars == <<cOp, cFiles, cDist, cFs, cTree, cLess, cPc, cI, cPieces, cOutcome,
             bPc, bContent, bOutcome, cReads, cWrites, cDirs, cLessCalls, cLog,
             cCrashed>>

scssVars == <<sParams, sFs, sPc, sData, sOutcome, sReads, sRenders>>

minVars == <<mParams, mFs, mPc, mInput, mOutcome, mReads, mWrites, mDirs>>

vars == <<resolveVars, tplVars, catVars, scssVars, minVars>>

---------------------------------------------------------------------------
(* Bounds of the model. *)

\* longest candidate path enumerated for path resolution
MaxPathLen == 5
\* longest configured root enumerated for path resolution
MaxRootLen == 3
\* most jobs in one compileHbsTemplates call
MaxJobs == 3
\* most entries in filesArr of one concatFilesContent call
MaxEntries == 4

---------------------------------------------------------------------------
(* Text helpers. *)

SEP == "/"
DOT == "."
DotDot == <<".", ".">>

\* String.prototype.indexOf(pre) === 0
StartsWith(s, pre) ==
    /\ Len(pre) <= Len(s)
    /\ SubSeq(s, 1, Len(pre)) = pre

\* all sequences over S of length at most n
RECURSIVE SeqsUpTo(_, _)
SeqsUpTo(S, n) ==
    IF n = 0 THEN {<<>>}
    ELSE LET shorter == SeqsUpTo(S, n - 1)
         IN  shorter \cup {Append(q, x) : q \in shorter, x \in S}

---------------------------------------------------------------------------
(* Node's path module, POSIX flavour. *)

RECURSIVE SplitRec(_, _, _)
SplitRec(s, cur, acc) ==
    IF s = <<>> THEN Append(acc, cur)
    ELSE IF Head(s) = SEP
         THEN SplitRec(Tail(s), <<>>, Append(acc, cur))
         ELSE SplitRec(Tail(s), Append(cur, Head(s)), acc)

\* the segments of a path between its separators (empty segments kept)
Split(s) == SplitRec(s, <<>>, <<>>)

\* path.normalizeString: drop "" and ".", let ".." cancel the segment before it
RECURSIVE NormalizeSegs(_, _, _)
NormalizeSegs(segs, res, allowAboveRoot) ==
    IF segs = <<>> THEN res
    ELSE LET seg  == Head(segs)
             rest == Tail(segs)
         IN  IF seg = <<>> \/ seg = <<DOT>>
             THEN NormalizeSegs(rest, res, allowAboveRoot)
             ELSE IF seg = DotDot
             THEN IF Len(res) > 0 /\ res[Len(res)] # DotDot
                  THEN NormalizeSegs(rest, SubSeq(res, 1, Len(res) - 1), allowAboveRoot)
                  ELSE IF allowAboveRoot
                       THEN NormalizeSegs(rest, Append(res, seg), allowAboveRoot)
                       ELSE NormalizeSegs(rest, res, allowAboveRoot)
             ELSE NormalizeSegs(rest, Append(res, seg), allowAboveRoot)

RECURSIVE JoinSegs(_)
JoinSegs(segs) ==
    IF segs = <<>> THEN <<>>
    ELSE IF Len(segs) = 1 THEN Head(segs)
    ELSE Head(segs) \o <<SEP>> \o JoinSegs(Tail(segs))

\* path.normalize
Normalize(path) ==
    IF path = <<>> THEN <<DOT>>
    ELSE LET isAbsolute        == path[1] = SEP
             trailingSeparator == path[Len(path)] = SEP
             body == JoinSegs(NormalizeSegs(Split(path), <<>>, ~isAbsolute))
         IN  IF body = <<>>
             THEN IF isAbsolute THEN <<SEP>>
                  ELSE IF trailingSeparator THEN <<DOT, SEP>> ELSE <<DOT>>
             ELSE (IF isAbsolute THEN <<SEP>> ELSE <<>>)
                  \o body
                  \o (IF trailingSeparator THEN <<SEP>> ELSE <<>>)

\* path.join of two arguments
Join(a, b) ==
    IF a = <<>> /\ b = <<>> THEN <<DOT>>
    ELSE IF a = <<>> THEN Normalize(b)
    ELSE IF b = <<>> THEN Normalize(a)
    ELSE Normalize(a \o <<SEP>> \o b)

RECURSIVE StripTrailingSeps(_)
StripTrailingSeps(s) ==
    IF s # <<>> /\ s[Len(s)] = SEP
    THEN StripTrailingSeps(SubSeq(s, 1, Len(s) - 1))
    ELSE s

\* path.parse(p).name + path.parse(p).ext: the last segment of p
ParseBase(p) ==
    LET segs == Split(StripTrailingSeps(p))
    IN  segs[Len(segs)]

---------------------------------------------------------------------------
(* Path resolution of compileHbsTemplate. *)

\* a variant that joins without the prefix test
ResolveAlwaysJoin(candidate, root) ==
    Join(Normalize(root), Normalize(candidate))

\* lines 214-223: normalize root and candidate, join unless already rooted
Resolve(candidate, root) ==
    LET r == Normalize(root)
        c == Normalize(candidate)
    IN  IF ~StartsWith(c, r) THEN Join(r, c) ELSE c

\* the constructor's defaults for settings.src and settings.dist
DefaultSrc  == <<".", "/", "s", "r", "c">>
DefaultDist == <<".", "/", "d", "i", "s", "t">>

PathChars == {SEP, DOT, "a"}

\* settings.src / settings.dist are never empty: '' falls back to the default
Roots == (SeqsUpTo(PathChars, MaxRootLen) \ {<<>>}) \cup {DefaultSrc, DefaultDist}

Candidates == SeqsUpTo(PathChars, MaxPathLen)

ResolveOff ==
    /\ rPc = "off"
    /\ rPath = <<>>
    /\ rRoot = <<>>
    /\ rOnce = <<>>
    /\ rTwice = <<>>

ResolveInit ==
    /\ rPc = "input"
    /\ rPath \in Candidates
    /\ rRoot \in Roots
    /\ rOnce = <<>>
    /\ rTwice = <<>>

ResolveOnce ==
    /\ rPc = "input"
    /\ rOnce' = Resolve(rPath, rRoot)
    /\ rPc' = "once"
    /\ UNCHANGED <<rPath, rRoot, rTwice>>
    /\ UNCHANGED <<tplVars, catVars, scssVars, minVars>>

ResolveTwice ==
    /\ rPc = "once"
    /\ rTwice' = Resolve(rOnce, rRoot)
    /\ rPc' = "twice"
    /\ UNCHANGED <<rPath, rRoot, rOnce>>
    /\ UNCHANGED <<tplVars, catVars, scssVars, minVars>>


---------------------------------------------------------------------------
(* Handlebars, abstractly.  A template text is a sequence of tokens: a literal *)
(* character, a reference to a field of the data context, or the opening of *)
(* a block that is never closed, which Handlebars refuses with an exception. *)

RefTitle    == "{{title}}"
RefFileName == "{{fileName}}"
OpenBlock   == "{{#"

IsRef(tok)  == tok \in {RefTitle, RefFileName}
RefKey(tok) == IF tok = RefTitle THEN "title" ELSE "fileName"

\* Handlebars.compile(text)(data) throws
TemplateThrows(tpl) == \E i \in 1..Len(tpl) : tpl[i] = OpenBlock

\* Handlebars.compile(text)(data): references replaced by the context's values
RECURSIVE Render(_, _)
Render(tpl, ctx) ==
    IF tpl = <<>> THEN <<>>
    ELSE LET tok   == Head(tpl)
             piece == IF IsRef(tok)
                      THEN IF RefKey(tok) \in DOMAIN ctx THEN ctx[RefKey(tok)] ELSE <<>>
                      ELSE <<tok>>
         IN  piece \o Render(Tail(tpl), ctx)

---------------------------------------------------------------------------
(* compileHbsTemplate and compileHbsTemplates. *)

\* lines 24-30: the constructor fills in the defaults
Constructor(settings) ==
    [src  |-> IF settings.src  # <<>> THEN settings.src  ELSE DefaultSrc,
     dist |-> IF settings.dist # <<>> THEN settings.dist ELSE DefaultDist]

\* path.dirname
Dirname(p) ==
    LET hasRoot == p # <<>> /\ p[1] = SEP
        s       == StripTrailingSeps(p)
        seps    == {k \in 2..Len(s) : s[k] = SEP}
        last    == CHOOSE k \in seps : \A j \in seps : j <= k
    IN  IF seps = {} THEN (IF hasRoot THEN <<SEP>> ELSE <<DOT>>)
        ELSE IF hasRoot /\ last = 2 THEN <<SEP, SEP>>
        ELSE SubSeq(s, 1, last - 1)

\* lines 225-228: { ...data, fileName }
SpreadWithFileName(data, fileName) ==
    [k \in (DOMAIN data) \cup {"fileName"} |->
        IF k = "fileName" THEN fileName ELSE data[k]]

\* a variant that assigns fileName on the caller's object
AssignFileName(data, fileName) == SpreadWithFileName(data, fileName)

\* lines 225-228: the spread builds a new object; the caller's is left as it was
CallerObjectAfter(data, fileName) == data

NotStarted ==
    [pc |-> "notStarted", promise |-> "none", fail |-> "none",
     source |-> <<>>, target |-> <<>>, ctx |-> <<>>, body |-> <<>>]

\* lines 212-229: the promise executor, up to the call of fs.readFile
Started(file, data) ==
    LET source == Resolve(file.source, tSettings.src)
        target == Resolve(file.target, tSettings.dist)
    IN  [pc |-> "reading", promise |-> "pending", fail |-> "none",
         source |-> source, target |-> target,
         ctx |-> SpreadWithFileName(data, ParseBase(target)),
         body |-> <<>>]

\* a variant of the await that lets the loop go on at once
NoAwait(job) == TRUE

\* line 254: await resumes once the job's promise is settled
AwaitResumes(job) == job.promise \in {"resolved", "rejected"}

SourcePool == { <<"a">>, <<"s", "r", "c", "/", "b">> }
TargetPool == { <<"p", ".", "h">>, <<"d", "i", "s", "t", "/", "q">> }
JobPool    == [source : SourcePool, target : TargetPool]
TemplatePool == { <<"<", RefFileName>>, <<RefTitle, RefFileName, ">">>,
                  <<"<", OpenBlock>> }
DataPool   == { [title |-> <<"T">>],
                [title |-> <<"T">>, fileName |-> <<"o", "l", "d">>] }
SettingsPool == { [src |-> <<>>, dist |-> <<>>] }

TplInit ==
    /\ \E opts \in SettingsPool : tSettings = Constructor(opts)
    /\ tFiles \in SeqsUpTo(JobPool, MaxJobs)
    /\ tData0 \in DataPool
    /\ tData = tData0
    /\ \E present \in SUBSET {Resolve(s, tSettings.src) : s \in SourcePool} :
          tFs \in [present -> TemplatePool]
    /\ tJobs = [i \in 1..Len(tFiles) |-> NotStarted]
    /\ tIdx = 0
    /\ tResults = <<>>
    /\ tBatch = "idle"
    /\ tWrites = <<>>
    /\ tDirs = {}
    /\ tCrashed = FALSE

\* lines 249-254: compileHbsTemplates is called and runs up to its first await
TplCall ==
    /\ tBatch = "idle"
    /\ IF tFiles = <<>>
       THEN /\ tBatch' = "resolved"
            /\ UNCHANGED <<tIdx, tJobs, tData>>
       ELSE LET job == Started(tFiles[1], tData)
            IN  /\ tBatch' = "running"
                /\ tIdx' = 1
                /\ tJobs' = [tJobs EXCEPT ![1] = job]
                /\ tData' = CallerObjectAfter(tData, job.ctx.fileName)
    /\ UNCHANGED <<tSettings, tFiles, tData0, tFs, tResults, tWrites, tDirs, tCrashed>>
    /\ UNCHANGED <<resolveVars, catVars, scssVars, minVars>>

\* lines 229-236: the callback of fs.readFile
TplReadDone(i) ==
    /\ ~tCrashed
    /\ tJobs[i].pc = "reading"
    /\ LET job == tJobs[i]
       IN  IF job.source \notin DOMAIN tFs
           THEN \* reject(err) does not return: sourceBody.toString() throws
                /\ tJobs' = [tJobs EXCEPT ![i].promise = "rejected",
                                          ![i].fail = "read", ![i].pc = "threw"]
                /\ tCrashed' \in BOOLEAN
                /\ UNCHANGED tDirs
           ELSE IF TemplateThrows(tFs[job.source])
           THEN \* the exception leaves the callback: nothing settles the promise
                /\ tJobs' = [tJobs EXCEPT ![i].fail = "template", ![i].pc = "threw"]
                /\ tCrashed' \in BOOLEAN
                /\ UNCHANGED tDirs
           ELSE \E mkdirOk \in BOOLEAN :
                  IF mkdirOk
                  THEN /\ tJobs' = [tJobs EXCEPT ![i].pc = "writing",
                                       ![i].body = Render(tFs[job.source], job.ctx)]
                       /\ tDirs' = tDirs \cup {Dirname(job.target)}
                       /\ UNCHANGED tCrashed
                  ELSE \* mkdirp.sync throws inside the callback
                       /\ tJobs' = [tJobs EXCEPT ![i].fail = "mkdir", ![i].pc = "threw"]
                       /\ tCrashed' \in BOOLEAN
                       /\ UNCHANGED tDirs
    /\ UNCHANGED <<tSettings, tFiles, tData, tData0, tFs, tIdx, tResults, tBatch, tWrites>>
    /\ UNCHANGED <<resolveVars, catVars, scssVars, minVars>>

\* lines 239-244: the callback of fs.writeFile
TplWriteDone(i) ==
    /\ ~tCrashed
    /\ tJobs[i].pc = "writing"
    /\ \E writeOk \in BOOLEAN :
          IF writeOk
          THEN /\ tWrites' = Append(tWrites, <<i, tJobs[i].target, tJobs[i].body>>)
               /\ tJobs' = [tJobs EXCEPT ![i].promise = "resolved", ![i].pc = "done"]
          ELSE \* reject(err), then resolve(...) on a settled promise does nothing
               /\ tJobs' = [tJobs EXCEPT ![i].promise = "rejected",
                                         ![i].fail = "write", ![i].pc = "done"]
               /\ UNCHANGED tWrites
    /\ UNCHANGED <<tSettings, tFiles, tData, tData0, tFs, tIdx, tResults, tBatch,
                   tDirs, tCrashed>>
    /\ UNCHANGED <<resolveVars, catVars, scssVars, minVars>>

\* lines 252-257: the await resumes; push the result and start the next job
TplResume ==
    /\ ~tCrashed
    /\ tBatch = "running"
    /\ AwaitResumes(tJobs[tIdx])
    /\ IF tJobs[tIdx].promise = "rejected"
       THEN /\ tBatch' = "rejected"
            /\ UNCHANGED <<tResults, tIdx, tJobs, tData>>
       ELSE /\ tResults' = Append(tResults, [targetBody |-> tJobs[tIdx].body,
                                             targetPath |-> tJobs[tIdx].target])
            /\ IF tIdx = Len(tFiles)
               THEN /\ tBatch' = "resolved"
                    /\ UNCHANGED <<tIdx, tJobs, tData>>
               ELSE LET job == Started(tFiles[tIdx + 1], tData)
                    IN  /\ tIdx' = tIdx + 1
                        /\ tJobs' = [tJobs EXCEPT ![tIdx + 1] = job]
                        /\ tData' = CallerObjectAfter(tData, job.ctx.fileName)
                        /\ UNCHANGED tBatch
    /\ UNCHANGED <<tSettings, tFiles, tData0, tFs, tWrites, tDirs, tCrashed>>
    /\ UNCHANGED <<resolveVars, catVars, scssVars, minVars>>

TplOff ==
    /\ tSettings = Constructor([src |-> <<>>, dist |-> <<>>])
    /\ tFiles = <<>>
    /\ tData0 = <<>>
    /\ tData = <<>>
    /\ tFs = <<>>
    /\ tJobs = <<>>
    /\ tIdx = 0
    /\ tResults = <<>>
    /\ tBatch = "off"
    /\ tWrites = <<>>
    /\ tDirs = {}
    /\ tCrashed = FALSE


---------------------------------------------------------------------------
(* concatFilesContent and buildBootstrap3. *)

\* this.EOL (line 22)
EOL == <<"\n">>

\* a variant of join that leaves the separator out
RECURSIVE JoinNoSeparator(_)
JoinNoSeparator(pieces) ==
    IF pieces = <<>> THEN <<>>
    ELSE Head(pieces) \o JoinNoSeparator(Tail(pieces))

\* concatedContent.join(this.EOL) (lines 158, 162)
RECURSIVE JoinEOL(_)
JoinEOL(pieces) ==
    IF pieces = <<>> THEN <<>>
    ELSE IF Len(pieces) = 1 THEN Head(pieces)
    ELSE Head(pieces) \o EOL \o JoinEOL(Tail(pieces))

\* the reserved entry of filesArr (line 149)
Bootstrap3Token == <<"b", "o", "o", "t", "s", "t", "r", "a", "p", "3">>

\* path.join(process.cwd(), '/node_modules/bootstrap/less') (line 36)
BootstrapRoot ==
    Join(<<SEP, "cwd">>, <<SEP, "node_modules", SEP, "bootstrap", SEP, "less">>)

\* lines 38-90
BootstrapFiles ==
    << "variables", "mixins", "print", "glyphicons", "code", "grid", "tables",
       "forms", "buttons", "component-animations", "dropdowns", "button-groups",
       "input-groups", "navs", "navbar", "breadcrumbs", "pagination", "pager",
       "badges", "jumbotron", "thumbnails", "alerts", "progress-bars", "media",
       "list-group", "panels", "responsive-embed", "wells", "close", "modals",
       "tooltip", "popovers", "carousel", "utilities", "responsive-utilities",
       "theme" >>

\* lines 91-93: path.join(bootstrapRoot, '/', fileName + '.less')
BootstrapPaths ==
    [i \in 1..Len(BootstrapFiles) |->
        Join(Join(BootstrapRoot, <<SEP>>), <<BootstrapFiles[i], ".less">>)]

\* the component file an incomplete Bootstrap tree lacks
LackingComponent == BootstrapPaths[2]

\* lines 95-99: the rule appended to the Bootstrap source
RowRule == <<".row * { box-sizing: border-box; }">>

\* less.render, abstractly: the css of a source
LessCss(source) == <<"css(">> \o source \o <<")">>

IsBootstrapPath(path) == \E i \in 1..Len(BootstrapPaths) : BootstrapPaths[i] = path

\* a variant that takes the Bootstrap tree to be there
ExistsAlways(path) == TRUE

\* fs.existsSync(bootstrapRoot) (line 37)
ExistsSync(path) == path = BootstrapRoot /\ cTree # "absent"

\* fs.readFileSync succeeds on this path
Readable(path) ==
    \/ path \in DOMAIN cFs
    \/ /\ IsBootstrapPath(path)
       /\ \/ cTree = "complete"
          \/ cTree = "incomplete" /\ path # LackingComponent

\* fs.readFileSync(path, encoding).toString()
FileText(path) ==
    IF path \in DOMAIN cFs THEN cFs[path] ELSE <<"/*", path[Len(path) - 1], "*/">>

NoError == <<>>
IoError(path) == <<"ENOENT", path>>
WriteError(path) == <<"EACCES", path>>
LessError == <<"Less compilation error:">>

Pending     == [state |-> "pending",  value |-> <<>>, error |-> NoError]
Resolved(v) == [state |-> "resolved", value |-> v,    error |-> NoError]
Rejected(e) == [state |-> "rejected", value |-> <<>>, error |-> e]

\* a variant that skips an entry that cannot be read
SkipUnreadable == "skip"

\* line 152: an exception of fs.readFileSync leaves concatFilesContent
OnUnreadable == "throw"

\* lines 147-155 on literal paths only: the pieces read up to the first
\* unreadable path, and the paths read
RECURSIVE ReadAll(_, _, _)
ReadAll(paths, pieces, reads) ==
    IF paths = <<>> THEN [ok |-> TRUE, pieces |-> pieces, reads |-> reads, error |-> NoError]
    ELSE LET path == Head(paths)
         IN  IF Readable(path)
             THEN ReadAll(Tail(paths), Append(pieces, FileText(path)), Append(reads, path))
             ELSE IF OnUnreadable = "throw"
             THEN [ok |-> FALSE, pieces |-> pieces, reads |-> Append(reads, path),
                   error |-> IoError(path)]
             ELSE ReadAll(Tail(paths), pieces, Append(reads, path))

\* lines 34-94: buildBootstrap3 is called and runs up to its first await
BootstrapStart ==
    IF ~ExistsSync(BootstrapRoot)
    THEN /\ cLog' = Append(cLog, "No Bootstrap 3 installed found")
         /\ bOutcome' = Resolved(<<>>)
         /\ bPc' = "settled"
         /\ UNCHANGED <<bContent, cReads>>
    ELSE LET inner == ReadAll(BootstrapPaths, <<>>, <<>>)
         IN  /\ cReads' = cReads \o inner.reads
             /\ IF inner.ok
                THEN /\ bContent' = JoinEOL(inner.pieces)
                     /\ bOutcome' = Pending
                     /\ bPc' = "awaitConcat"
                ELSE \* the await throws what concatFilesContent rejected with
                     /\ bOutcome' = Rejected(inner.error)
                     /\ bPc' = "settled"
                     /\ UNCHANGED bContent
             /\ UNCHANGED cLog

CatInputsUnchanged == UNCHANGED <<cOp, cFiles, cDist, cFs, cTree, cLess>>

CatRuns == ~cCrashed /\ UNCHANGED cCrashed

\* the caller invokes buildBootstrap3 itself
BootstrapCall ==
    /\ CatRuns
    /\ cOp = "buildBootstrap3"
    /\ bPc = "idle"
    /\ BootstrapStart
    /\ CatInputsUnchanged
    /\ UNCHANGED <<cPc, cI, cPieces, cOutcome, cWrites, cDirs, cLessCalls>>
    /\ UNCHANGED <<resolveVars, tplVars, scssVars, minVars>>

\* lines 94-110: the await of concatFilesContent resumes; require('less')
BootstrapAfterConcat ==
    /\ CatRuns
    /\ bPc = "awaitConcat"
    /\ LET content == bContent \o RowRule
       IN  /\ bContent' = content
           /\ IF cLess = "missing"
              THEN /\ cLog' = Append(cLog, "npm i -D less is required to build Bootstrap 3")
                   /\ bOutcome' = Resolved(<<>>)
                   /\ bPc' = "settled"
                   /\ UNCHANGED cLessCalls
              ELSE /\ cLessCalls' = Append(cLessCalls, content)
                   /\ bPc' = "awaitLess"
                   /\ UNCHANGED <<cLog, bOutcome>>
    /\ CatInputsUnchanged
    /\ UNCHANGED <<cPc, cI, cPieces, cOutcome, cReads, cWrites, cDirs>>
    /\ UNCHANGED <<resolveVars, tplVars, scssVars, minVars>>

\* lines 110-119: the callback of less.render, and the await of compileLess
BootstrapLessDone ==
    /\ ~cCrashed
    /\ bPc = "awaitLess"
    /\ IF cLess = "error"
       THEN \* reject(...) does not return: output.css throws on no output
            /\ bOutcome' = Rejected(LessError)
            /\ cCrashed' \in BOOLEAN
       ELSE /\ bOutcome' = Resolved(LessCss(bContent))
            /\ UNCHANGED cCrashed
    /\ bPc' = "settled"
    /\ CatInputsUnchanged
    /\ UNCHANGED <<cPc, cI, cPieces, cOutcome, bContent, cReads, cWrites, cDirs,
                   cLessCalls, cLog>>
    /\ UNCHANGED <<resolveVars, tplVars, scssVars, minVars>>

\* lines 144-147: concatFilesContent is called
CatCall ==
    /\ CatRuns
    /\ cOp = "concatFilesContent"
    /\ cPc = "idle"
    /\ cPc' = "loop"
    /\ cI' = 1
    /\ cOutcome' = Pending
    /\ CatInputsUnchanged
    /\ UNCHANGED <<cPieces, bPc, bContent, bOutcome, cReads, cWrites, cDirs,
                   cLessCalls, cLog>>
    /\ UNCHANGED <<resolveVars, tplVars, scssVars, minVars>>

\* lines 147-155: one entry of filesArr
CatEntry ==
    /\ CatRuns
    /\ cPc = "loop"
    /\ cI <= Len(cFiles)
    /\ LET filePath == cFiles[cI]
       IN  IF filePath = Bootstrap3Token
           THEN /\ BootstrapStart
                /\ cPc' = "awaitBootstrap"
                /\ UNCHANGED <<cI, cPieces, cOutcome>>
           ELSE /\ cReads' = Append(cReads, filePath)
                /\ IF Readable(filePath)
                   THEN /\ cPieces' = Append(cPieces, FileText(filePath))
                        /\ cI' = cI + 1
                        /\ UNCHANGED <<cPc, cOutcome>>
                   ELSE IF OnUnreadable = "throw"
                   THEN /\ cOutcome' = Rejected(IoError(filePath))
                        /\ cPc' = "done"
                        /\ UNCHANGED <<cI, cPieces>>
                   ELSE /\ cI' = cI + 1
                        /\ UNCHANGED <<cPc, cPieces, cOutcome>>
                /\ UNCHANGED <<bPc, bContent, bOutcome, cLog>>
    /\ CatInputsUnchanged
    /\ UNCHANGED <<cWrites, cDirs, cLessCalls>>
    /\ UNCHANGED <<resolveVars, tplVars, scssVars, minVars>>

\* lines 150, 154: the await of buildBootstrap3 resumes
CatAfterBootstrap ==
    /\ CatRuns
    /\ cPc = "awaitBootstrap"
    /\ bPc = "settled"
    /\ IF bOutcome.state = "resolved"
       THEN /\ cPieces' = Append(cPieces, bOutcome.value)
            /\ cI' = cI + 1
            /\ cPc' = "loop"
            /\ UNCHANGED cOutcome
       ELSE /\ cOutcome' = Rejected(bOutcome.error)
            /\ cPc' = "done"
            /\ UNCHANGED <<cI, cPieces>>
    /\ bPc' = "idle"
    /\ CatInputsUnchanged
    /\ UNCHANGED <<bContent, bOutcome, cReads, cWrites, cDirs, cLessCalls, cLog>>
    /\ UNCHANGED <<resolveVars, tplVars, scssVars, minVars>>

\* lines 156-162: the loop is over; write when distPath is given, and return
CatFinish ==
    /\ CatRuns
    /\ cPc = "loop"
    /\ cI > Len(cFiles)
    /\ cPc' = "done"
    /\ IF cDist # <<>>
       THEN \E mkdirOk, writeOk \in BOOLEAN :
              IF ~mkdirOk
              THEN /\ cOutcome' = Rejected(WriteError(Dirname(cDist)))
                   /\ UNCHANGED <<cDirs, cWrites>>
              ELSE /\ cDirs' = cDirs \cup {Dirname(cDist)}
                   /\ IF writeOk
                      THEN /\ cWrites' = Append(cWrites, <<cDist, JoinEOL(cPieces)>>)
                           /\ cOutcome' = Resolved(JoinEOL(cPieces))
                      ELSE /\ cOutcome' = Rejected(WriteError(cDist))
                           /\ UNCHANGED cWrites
       ELSE /\ cOutcome' = Resolved(JoinEOL(cPieces))
            /\ UNCHANGED <<cDirs, cWrites>>
    /\ CatInputsUnchanged
    /\ UNCHANGED <<cI, cPieces, bPc, bContent, bOutcome, cReads, cLessCalls, cLog>>
    /\ UNCHANGED <<resolveVars, tplVars, scssVars, minVars>>

FileX == <<"x">>
FileY == <<"l", "i", "b", "/", "y">>
EntryPool == {FileX, FileY, Bootstrap3Token}
DistPool  == {<<>>, <<"o", "u", "t", "/", "z">>}
LiteralTexts == [x \in {FileX, FileY} |-> IF x = FileX THEN <<"A">> ELSE <<"B", "B">>]

CatInit ==
    /\ cOp \in {"concatFilesContent", "buildBootstrap3"}
    /\ IF cOp = "concatFilesContent"
       THEN /\ cFiles \in SeqsUpTo(EntryPool, MaxEntries)
            /\ cDist \in DistPool
            /\ \E present \in SUBSET {FileX, FileY} :
                  cFs = [x \in present |-> LiteralTexts[x]]
       ELSE /\ cFiles = <<>>
            /\ cDist = <<>>
            /\ cFs = <<>>
    /\ cTree \in {"absent", "complete", "incomplete"}
    /\ cLess \in {"missing", "ok", "error"}
    /\ cPc = "idle"
    /\ cI = 0
    /\ cPieces = <<>>
    /\ cOutcome = Pending
    /\ bPc = "idle"
    /\ bContent = <<>>
    /\ bOutcome = Pending
    /\ cReads = <<>>
    /\ cWrites = <<>>
    /\ cDirs = {}
    /\ cLessCalls = <<>>
    /\ cLog = <<>>
    /\ cCrashed = FALSE

CatOff ==
    /\ cOp = "off"
    /\ cFiles = <<>>
    /\ cDist = <<>>
    /\ cFs = <<>>
    /\ cTree = "absent"
    /\ cLess = "missing"
    /\ cPc = "off"
    /\ cI = 0
    /\ cPieces = <<>>
    /\ cOutcome = Pending
    /\ bPc = "off"
    /\ bContent = <<>>
    /\ bOutcome = Pending
    /\ cReads = <<>>
    /\ cWrites = <<>>
    /\ cDirs = {}
    /\ cLessCalls = <<>>
    /\ cLog = <<>>
    /\ cCrashed = FALSE

---------------------------------------------------------------------------
(* Optional parameters: undefined, or a text (which may be the empty string). *)

Undefined == [set |-> FALSE, text |-> <<>>]
Str(t)    == [set |-> TRUE,  text |-> t]

\* JavaScript truthiness of an optional text: undefined and '' are falsy
Truthy(v) == v.set /\ v.text # <<>>

TypeError == <<"TypeError">>

---------------------------------------------------------------------------
(* buildCustomCssFromScss. *)

\* node-sass's error for a render call with neither data nor file
NoInputError == <<"No input specified">>
SassError    == <<"Sass compilation error">>

\* sass.render on a source, abstractly: the css of the source in a style
SassCss(source, style) == [css |-> <<"css(">> \o source \o <<")">>, style |-> style]

ScssInputsUnchanged == UNCHANGED <<sParams, sFs>>

\* lines 128-133: the promise executor, up to setTimeout.  Line 130 reads
\* (data || file) ? fs.readFileSync(file, ...).toString() : null
ScssCall ==
    /\ sPc = "idle"
    /\ LET file == sParams.file
           data == sParams.data
       IN  IF Truthy(data) \/ Truthy(file)
           THEN /\ sReads' = Append(sReads, file)
                /\ IF ~file.set
                   THEN \* fs.readFileSync(undefined) throws inside the executor
                        /\ sOutcome' = Rejected(TypeError)
                        /\ sPc' = "done"
                        /\ UNCHANGED sData
                   ELSE IF file.text \notin DOMAIN sFs
                   THEN /\ sOutcome' = Rejected(IoError(file.text))
                        /\ sPc' = "done"
                        /\ UNCHANGED sData
                   ELSE /\ sData' = Str(sFs[file.text])
                        /\ sPc' = "timer"
                        /\ UNCHANGED sOutcome
           ELSE /\ sData' = Undefined
                /\ sPc' = "timer"
                /\ UNCHANGED <<sReads, sOutcome>>
    /\ UNCHANGED sRenders
    /\ ScssInputsUnchanged
    /\ UNCHANGED <<resolveVars, tplVars, catVars, minVars>>

\* lines 131, 133-134: the timer fires and sass.render is called
ScssTimer ==
    /\ sPc = "timer"
    /\ sRenders' = Append(sRenders,
          [file |-> sParams.file, data |-> sData,
           outputStyle |-> IF Truthy(sParams.outputStyle)
                           THEN sParams.outputStyle.text ELSE <<"compressed">>])
    /\ sPc' = "rendering"
    /\ UNCHANGED <<sData, sOutcome, sReads>>
    /\ ScssInputsUnchanged
    /\ UNCHANGED <<resolveVars, tplVars, catVars, minVars>>

\* lines 134-139: the callback of sass.render.  node-sass compiles data when
\* it is given, else the file, else reports that there is no input.
ScssRenderDone ==
    /\ sPc = "rendering"
    /\ LET opts == sRenders[Len(sRenders)]
       IN  \E compiles \in BOOLEAN :
             IF Truthy(opts.data)
             THEN sOutcome' = IF compiles
                              THEN Resolved(SassCss(opts.data.text, opts.outputStyle))
                              ELSE Rejected(SassError)
             ELSE IF Truthy(opts.file)
             THEN sOutcome' = IF compiles /\ opts.file.text \in DOMAIN sFs
                              THEN Resolved(SassCss(sFs[opts.file.text], opts.outputStyle))
                              ELSE Rejected(SassError)
             ELSE sOutcome' = Rejected(NoInputError)
    /\ sPc' = "done"
    /\ UNCHANGED <<sData, sReads, sRenders>>
    /\ ScssInputsUnchanged
    /\ UNCHANGED <<resolveVars, tplVars, catVars, minVars>>

ScssFile  == <<"m", ".", "s", "c", "s", "s">>
ScssOther == <<"n", ".", "s", "c", "s", "s">>
ScssTextPool == { <<"a", "{", "}">>, <<"$", "v">> }

ScssInit ==
    /\ sParams \in [file : {Undefined, Str(ScssFile), Str(ScssOther)},
                    data : {Undefined, Str(<<>>)} \cup {Str(t) : t \in ScssTextPool},
                    outputStyle : {Undefined, Str(<<"expanded">>)}]
    /\ \E present \in SUBSET {ScssFile} : sFs \in [present -> ScssTextPool]
    /\ sPc = "idle"
    /\ sData = Undefined
    /\ sOutcome = Pending
    /\ sReads = <<>>
    /\ sRenders = <<>>

ScssOff ==
    /\ sParams = [file |-> Undefined, data |-> Undefined, outputStyle |-> Undefined]
    /\ sFs = <<>>
    /\ sPc = "off"
    /\ sData = Undefined
    /\ sOutcome = Pending
    /\ sReads = <<>>
    /\ sRenders = <<>>

---------------------------------------------------------------------------
(* minifyJsContent and minifyCssContent. *)

\* the minifiers, abstractly: the text without its blanks
RECURSIVE Minified(_)
Minified(text) ==
    IF text = <<>> THEN <<>>
    ELSE IF Head(text) = " " THEN Minified(Tail(text))
    ELSE <<Head(text)>> \o Minified(Tail(text))

Returned(v) == [state |-> "returned", value |-> v, error |-> NoError]
Threw(e)    == [state |-> "threw",    value |-> <<>>, error |-> e]

\* lines 167, 187: content || fs.readFileSync(srcPath, ...)
UsesContent(content) == Truthy(content)

\* lines 166-182 and 186-196: both minifiers, which differ in the minifier
\* called.  uglifyJS.minify reports a parse error in its result, whose code
\* is then undefined; CleanCSS always yields styles.
MinifyContent(kind) ==
    /\ mPc = "idle"
    /\ mParams.kind = kind
    /\ mPc' = "done"
    /\ LET content  == mParams.content
           srcPath  == mParams.srcPath
           distPath == mParams.distPath
           reads    == ~UsesContent(content)
           text     == IF reads THEN mFs[srcPath.text] ELSE content.text
       IN  /\ mReads' = IF reads THEN Append(mReads, srcPath) ELSE mReads
           /\ IF reads /\ ~srcPath.set
              THEN /\ mOutcome' = Threw(TypeError)
                   /\ UNCHANGED <<mInput, mWrites, mDirs>>
              ELSE IF reads /\ srcPath.text \notin DOMAIN mFs
              THEN /\ mOutcome' = Threw(IoError(srcPath.text))
                   /\ UNCHANGED <<mInput, mWrites, mDirs>>
              ELSE /\ mInput' = Str(text)
                   /\ \E parses, mkdirOk, writeOk, writesUndefined \in BOOLEAN :
                        LET ok     == parses \/ kind = "css"
                            result == IF ok THEN [code |-> Str(Minified(text))]
                                      ELSE [code |-> Undefined]
                        IN  IF ~Truthy(distPath)
                            THEN /\ mOutcome' = Returned(result)
                                 /\ UNCHANGED <<mWrites, mDirs>>
                            ELSE IF ~mkdirOk
                            THEN /\ mOutcome' = Threw(WriteError(Dirname(distPath.text)))
                                 /\ UNCHANGED <<mWrites, mDirs>>
                            ELSE /\ mDirs' = mDirs \cup {Dirname(distPath.text)}
                                 /\ IF ~writeOk \/ (~ok /\ ~writesUndefined)
                                    THEN \* fs.writeFileSync fails, or refuses undefined
                                         /\ mOutcome' = Threw(IF ok THEN WriteError(distPath.text)
                                                              ELSE TypeError)
                                         /\ UNCHANGED mWrites
                                    ELSE /\ mWrites' = Append(mWrites,
                                              <<distPath.text,
                                                IF ok THEN result.code.text
                                                ELSE <<"undefined">> >>)
                                         /\ mOutcome' = Returned(result)
    /\ UNCHANGED <<mParams, mFs>>
    /\ UNCHANGED <<resolveVars, tplVars, catVars, scssVars>>

\* lines 165-183
MinifyJsContent == MinifyContent("js")

\* lines 185-197
MinifyCssContent == MinifyContent("css")

MinSrc  == <<"i", "n">>
MinDist == <<"o", "/", "m">>
MinTextPool == { <<"a", " ", "b">>, <<" ", "c">> }

MinInit ==
    /\ mParams \in [kind : {"js", "css"},
                    content : {Undefined, Str(<<>>)} \cup {Str(t) : t \in MinTextPool},
                    srcPath : {Undefined, Str(MinSrc)},
                    distPath : {Undefined, Str(MinDist)}]
    /\ \E present \in SUBSET {MinSrc} : mFs \in [present -> MinTextPool]
    /\ mPc = "idle"
    /\ mInput = Undefined
    /\ mOutcome = [state |-> "pending", value |-> <<>>, error |-> NoError]
    /\ mReads = <<>>
    /\ mWrites = <<>>
    /\ mDirs = {}

MinOff ==
    /\ mParams = [kind |-> "off", content |-> Undefined, srcPath |-> Undefined,
                  distPath |-> Undefined]
    /\ mFs = <<>>
    /\ mPc = "off"
    /\ mInput = Undefined
    /\ mOutcome = [state |-> "pending", value |-> <<>>, error |-> NoError]
    /\ mReads = <<>>
    /\ mWrites = <<>>
    /\ mDirs = {}

---------------------------------------------------------------------------
(* The specifications: one per operation of Build a caller can invoke. *)

InitResolve == ResolveInit /\ TplOff /\ CatOff /\ ScssOff /\ MinOff

NextResolve ==
    \/ ResolveOnce
    \/ ResolveTwice

SpecResolve == InitResolve /\ [][NextResolve]_vars

Init == TplInit /\ ResolveOff /\ CatOff /\ ScssOff /\ MinOff

Next ==
    \/ TplCall
    \/ \E i \in 1..Len(tFiles) : TplReadDone(i)
    \/ \E i \in 1..Len(tFiles) : TplWriteDone(i)
    \/ TplResume

Spec == Init /\ [][Next]_vars

InitConcat == CatInit /\ ResolveOff /\ TplOff /\ ScssOff /\ MinOff

NextConcat ==
    \/ CatCall
    \/ CatEntry
    \/ CatAfterBootstrap
    \/ CatFinish
    \/ BootstrapCall
    \/ BootstrapAfterConcat
    \/ BootstrapLessDone

SpecConcat == InitConcat /\ [][NextConcat]_vars

InitScss == ScssInit /\ ResolveOff /\ TplOff /\ CatOff /\ MinOff

NextScss ==
    \/ ScssCall
    \/ ScssTimer
    \/ ScssRenderDone

SpecScss == InitScss /\ [][NextScss]_vars

InitMinify == MinInit /\ ResolveOff /\ TplOff /\ CatOff /\ ScssOff

NextMinify ==
    \/ MinifyJsContent
    \/ MinifyCssContent

SpecMinify == InitMinify /\ [][NextMinify]_vars

---------------------------------------------------------------------------
(* Path resolution: C1. *)

\* C1 as stated: resolving a resolved path against the same root returns it
\* unchanged, for every candidate path and every root.
C1_Idempotent ==
    rPc = "twice" => rTwice = rOnce

\* the normalized candidate is "." or begins with a ".." segment: it names
\* the directory it starts from, or something outside it
LeavesStart(p) ==
    \/ Normalize(p) = <<DOT>>
    \/ Head(Split(Normalize(p))) = DotDot

\* C1 amended: resolving a resolved path against the same root returns it
\* unchanged for every root and every candidate whose normalized form is not
\* "." and does not begin with a ".." segment.
C1_IdempotentInside ==
    (rPc = "twice" /\ ~LeavesStart(rPath)) => rTwice = rOnce

\* a candidate that was not yet under the root has been joined onto it and
\* the result resolved once more
C1_Witness ==
    /\ rPc = "twice"
    /\ ~LeavesStart(rPath)
    /\ ~StartsWith(Normalize(rPath), Normalize(rRoot))
    /\ rOnce # Normalize(rPath)
    /\ rTwice = rOnce

---------------------------------------------------------------------------
(* Template rendering: C2, C3, C6, C9. *)

WroteFor(i) == \E w \in 1..Len(tWrites) : tWrites[w][1] = i

\* C2: whenever compiling or rendering the template text fails, the promise
\* of that compileHbsTemplate call is rejected (not left pending, not
\* resolved) and no file is written for the call.
C2_TemplateFailureRejects ==
    \A i \in 1..Len(tJobs) :
        tJobs[i].fail = "template" =>
            /\ tJobs[i].promise = "rejected"
            /\ ~WroteFor(i)

\* nothing of the batch is left to run: no callback is outstanding and no
\* await is ready to resume
TplQuiescent ==
    /\ tBatch # "idle"
    /\ \A i \in 1..Len(tJobs) : tJobs[i].pc \notin {"reading", "writing"}
    /\ ~(tBatch = "running" /\ AwaitResumes(tJobs[tIdx]))

\* C3: if job k fails (source read, template, or target write), no job after
\* k is ever started, nothing is written for it, and the batch ends as a
\* failure (stated for a process that outlives the failure).
C3_FailFast ==
    \A k \in 1..Len(tJobs) :
        tJobs[k].fail \in {"read", "template", "write"} =>
            /\ \A j \in (k + 1)..Len(tJobs) :
                  tJobs[j].pc = "notStarted" /\ ~WroteFor(j)
            /\ (TplQuiescent /\ ~tCrashed) => tBatch = "rejected"

\* b is the base name (name + extension) of path: its last segment
IsBaseNameOf(b, path) ==
    LET s == StripTrailingSeps(path)
        n == Len(s)
        m == Len(b)
    IN  /\ m <= n
        /\ SubSeq(s, n - m + 1, n) = b
        /\ \A k \in 1..m : b[k] # SEP
        /\ m = n \/ s[n - m] = SEP

\* C6: each call renders against the caller's data plus fileName, the base
\* name of the resolved target, and the caller's data object stays as it was,
\* whether the call succeeds or fails and across the jobs of a batch.
C6_ContextAndFrame ==
    /\ tData = tData0
    /\ \A i \in 1..Len(tJobs) :
          tJobs[i].pc # "notStarted" =>
              LET job == tJobs[i]
              IN  /\ job.target = Resolve(tFiles[i].target, tSettings.dist)
                  /\ DOMAIN job.ctx = (DOMAIN tData0) \cup {"fileName"}
                  /\ \A k \in (DOMAIN tData0) \ {"fileName"} : job.ctx[k] = tData0[k]
                  /\ IsBaseNameOf(job.ctx.fileName, job.target)
                  /\ (job.pc \in {"writing", "done"}) =>
                        job.body = Render(tFs[job.source], job.ctx)

\* the second job of a batch succeeded with a fileName of its own while the
\* shared data object holds another fileName
C6_Witness ==
    /\ Len(tJobs) = 2
    /\ tJobs[2].promise = "resolved"
    /\ "fileName" \in DOMAIN tData0
    /\ tJobs[2].ctx.fileName # tData0.fileName
    /\ tJobs[2].ctx.fileName # tJobs[1].ctx.fileName

\* C9: at most one job is in flight; a job is started only after the write
\* of the job before it completed; and a successful batch returns one result
\* per job, in job order, each the rendered body and resolved target of its job.
C9_OneAtATimeInOrder ==
    /\ Cardinality({i \in 1..Len(tJobs) : tJobs[i].pc \in {"reading", "writing"}}) <= 1
    /\ \A i \in 1..(Len(tJobs) - 1) :
          tJobs[i + 1].pc # "notStarted" =>
              WroteFor(i) /\ tJobs[i].promise = "resolved"
    /\ tBatch = "resolved" =>
          /\ Len(tResults) = Len(tFiles)
          /\ Len(tWrites) = Len(tFiles)
          /\ \A i \in 1..Len(tFiles) :
                LET target == Resolve(tFiles[i].target, tSettings.dist)
                    source == Resolve(tFiles[i].source, tSettings.src)
                IN  /\ tWrites[i] = <<i, target, tResults[i].targetBody>>
                    /\ tResults[i].targetPath = target
                    /\ tResults[i].targetBody = Render(tFs[source], tJobs[i].ctx)

\* a batch of two different jobs has succeeded
C9_Witness ==
    /\ tBatch = "resolved"
    /\ Len(tFiles) = 2
    /\ tFiles[1].source # tFiles[2].source
    /\ tResults[1] # tResults[2]

---------------------------------------------------------------------------
(* Concatenation and the Bootstrap 3 bundle: C4, C5, C8. *)

MissingLiterals ==
    {i \in 1..Len(cFiles) : cFiles[i] # Bootstrap3Token /\ ~Readable(cFiles[i])}

FirstMissing == CHOOSE i \in MissingLiterals : \A j \in MissingLiterals : i <= j

\* buildBootstrap3 fails in this environment
BootstrapFails ==
    \/ cTree = "incomplete"
    \/ cTree = "complete" /\ cLess = "error"

\* C4: with a missing literal path anywhere in filesArr, concatFilesContent
\* never writes distPath nor creates its directories, never succeeds, and
\* ends rejected: with the I/O error of that path when the entries before it
\* yielded their content.
C4_MissingLiteralNoWrite ==
    (cOp = "concatFilesContent" /\ MissingLiterals # {}) =>
        /\ cWrites = <<>>
        /\ cDirs = {}
        /\ cOutcome.state # "resolved"
        /\ cPc = "done" =>
              /\ cOutcome.state = "rejected"
              /\ ~(BootstrapFails /\ \E j \in 1..(FirstMissing - 1) :
                                        cFiles[j] = Bootstrap3Token)
                    => cOutcome.error = IoError(cFiles[FirstMissing])

\* the third entry is missing after two entries that were read, and a
\* distPath was given
C4_Witness ==
    /\ cOp = "concatFilesContent"
    /\ cPc = "done"
    /\ cDist # <<>>
    /\ MissingLiterals = {3}
    /\ Len(cPieces) = 2
    /\ cOutcome = Rejected(IoError(cFiles[3]))

\* how many entries before the i-th are the Bootstrap 3 token
TokensBefore(i) ==
    Cardinality({j \in 1..(i - 1) : cFiles[j] = Bootstrap3Token})

\* the content of the i-th entry: the file's text, or what buildBootstrap3
\* returned for it (empty without the tree or without less, else the css
\* less made of the source it was called with)
EntryContent(i) ==
    IF cFiles[i] # Bootstrap3Token THEN cFs[cFiles[i]]
    ELSE IF cTree = "absent" \/ cLess = "missing" THEN <<>>
    ELSE LessCss(cLessCalls[TokensBefore(i) + 1])

\* where the i-th entry's content starts in the joined text, less one
RECURSIVE Offset(_)
Offset(i) == IF i = 1 THEN 0 ELSE Offset(i - 1) + Len(EntryContent(i - 1)) + 1

\* C5: the returned text is the contents of the entries in entry order with
\* one newline between consecutive contents, and with a distPath that same
\* text is what is written there.
C5_OrderedJoin ==
    (cOp = "concatFilesContent" /\ cOutcome.state = "resolved") =>
        LET n    == Len(cFiles)
            text == cOutcome.value
        IN  /\ Len(text) = IF n = 0 THEN 0 ELSE Offset(n) + Len(EntryContent(n))
            /\ \A i \in 1..n :
                  SubSeq(text, Offset(i) + 1, Offset(i) + Len(EntryContent(i)))
                      = EntryContent(i)
            /\ \A i \in 2..n : text[Offset(i)] = "\n"
            /\ cWrites = IF cDist # <<>> THEN << <<cDist, text>> >> ELSE <<>>

\* a file, the Bootstrap 3 bundle and another file were joined and written
C5_Witness ==
    /\ cOutcome.state = "resolved"
    /\ cFiles = <<FileY, Bootstrap3Token, FileX>>
    /\ cTree = "complete"
    /\ cLess = "ok"
    /\ cDist # <<>>
    /\ cWrites # <<>>

\* C8: without the Bootstrap 3 tree buildBootstrap3 settles with the empty
\* string, reads no component file and never calls less; with the tree
\* readable and less unavailable it settles with the empty string too; in
\* neither case is the outcome an error.
C8_BootstrapDegrades ==
    /\ cTree = "absent" =>
          /\ bOutcome.state # "rejected"
          /\ bPc = "settled" => bOutcome = Resolved(<<>>)
          /\ cLessCalls = <<>>
          /\ \A r \in 1..Len(cReads) : ~IsBootstrapPath(cReads[r])
    /\ (cTree = "complete" /\ cLess = "missing") =>
          /\ bOutcome.state # "rejected"
          /\ bPc = "settled" => bOutcome = Resolved(<<>>)
          /\ cLessCalls = <<>>

\* buildBootstrap3 has read every component file, found no less, and settled
C8_Witness ==
    /\ cOp = "buildBootstrap3"
    /\ bPc = "settled"
    /\ cTree = "complete"
    /\ cLess = "missing"
    /\ Len(cReads) = Len(BootstrapFiles)
    /\ bOutcome = Resolved(<<>>)

---------------------------------------------------------------------------
(* The Sass wrapper: C7. *)

\* C7: a call with data and no file hands that data to the Sass compiler,
\* reads no file and settles with the compiler's result; a call with a file
\* reads it before the delay and hands its content to the compiler; a
\* compiler error rejects the call with that error.
C7_DataOrFile ==
    LET file == sParams.file
        data == sParams.data
    IN  /\ (Truthy(data) /\ ~file.set) =>
              /\ sReads = <<>>
              /\ sPc = "done" =>
                    /\ Len(sRenders) = 1
                    /\ sRenders[1].data = data
                    /\ sOutcome \in {Resolved(SassCss(data.text, sRenders[1].outputStyle)),
                                     Rejected(SassError)}
        /\ (Truthy(file) /\ file.text \in DOMAIN sFs /\ sPc \notin {"idle"}) =>
              /\ sReads = <<file>>
              /\ sPc \in {"rendering", "done"} => sRenders[1].data = Str(sFs[file.text])

---------------------------------------------------------------------------
(* The minifiers: C10. *)

\* C10: when content is present, whatever its text, the minifier gets
\* exactly that content and srcPath is not read; srcPath is read only when
\* content is absent.
C10_ContentWins ==
    mPc = "done" =>
        /\ mParams.content.set =>
              /\ mInput = mParams.content
              /\ mReads = <<>>
        /\ mReads # <<>> => ~mParams.content.set

=============================================================================
